---- MODULE Spec2Model ----
(***************************************************************************)
(* MediaObject (src/lib/MediaObject.js): the client-side proxy of a       *)
(* server-side media object.  The proxy is a Node.js EventEmitter; its    *)
(* constructor attaches a 'removeListener' and a 'newListener' handler    *)
(* that turn listener-count transitions into 'unsubscribe' / 'subscribe'  *)
(* requests emitted on the '_rpc' event, where the transport (the         *)
(* gateway) listens.  release() and invoke() emit '_rpc' requests too.    *)
(*                                                                         *)
(* The state is the emitter's listener table, the closure variable        *)
(* `tokens`, and the requests the gateway holds with their completion     *)
(* callbacks.  What a step emits to the application ('error', 'release'), *)
(* throws, logs or calls back is kept in emitted, thrown, logged, called, *)
(* which every step overwrites.                                           *)
(***************************************************************************)
EXTENDS Integers, Sequences, FiniteSets, Bags, TLC

\* Bounds of the model.
MaxListeners == 2    \* application listeners per event-type ('_rpc': the gateway)
MaxPending   == 2    \* requests the gateway holds at once
MaxTokens    == 2    \* distinct subscription tokens alive at once

\* tokens[event] of an event-type with no entry, and an argument not passed
Undefined == 0
Tokens    == 1..MaxTokens
Null      == "null"
Errors    == {"e1", "e2"}
None      == "none"

\* Event-types of the emitter: its own two bookkeeping events, the gateway
\* event, the local-only 'release', and a server event-type.  The server
\* event-type is 'error': the handlers treat it like any other event-type,
\* and its listeners are the ones emit('error', ...) needs.
Events    == {"removeListener", "newListener", "_rpc", "release", "error"}
\* Event-types the application (or, for '_rpc', the transport) attaches
\* listeners to.  The two bookkeeping events keep the constructor's handler
\* as their only listener.
AppEvents == {"_rpc", "release", "error"}
\* Event-types the newListener handler subscribes on the server
ServerEvents == Events \ {"release", "_rpc"}

VARIABLES
  listeners,   \* EventEmitter.listenerCount(self, event), per event-type
  beforeRpc,   \* the event-types whose key precedes '_rpc' in the listener table
  tokens,      \* var tokens = {}: event-type -> subscription token
  pending,     \* bag of the requests delivered to the gateway and not completed
  serverSubs,  \* per event-type, tokens of the subscriptions active on the server
  emitted,     \* 'error' / 'release' emissions of the last step
  thrown,      \* the exception the last step raised, or None
  logged,      \* what the last step passed to console.error, or None
  called       \* invocations of invoke's completion handlers by the last step

vars == <<listeners, beforeRpc, tokens, pending, serverSubs, emitted, thrown, logged, called>>

----------------------------------------------------------------------------
\* EventEmitter

listenerCount(ls, event) == ls[event]

\* A proxy that hands its requests to the gateway directly, listener on
\* '_rpc' or not
emitRpcDirect(ls, method, params, callback) ==
  << [method |-> method, params |-> params, callback |-> callback] >>

\* this.emit('_rpc', method, params, callback): the request reaches the
\* gateway when something listens on '_rpc', and nobody otherwise.
emitRpc(ls, method, params, callback) ==
  IF listenerCount(ls, "_rpc") > 0
    THEN << [method |-> method, params |-> params, callback |-> callback] >>
    ELSE << >>

\* self.emit(type, arg) towards the application's listeners
emitEvent(ls, type, arg) ==
  [type |-> type, arg |-> arg, delivered |-> listenerCount(ls, type)]

\* emit('error', er) with no 'error' listener throws er
throwsOf(emits) ==
  IF \E i \in 1..Len(emits) : emits[i].type = "error" /\ emits[i].delivered = 0
    THEN (emits[CHOOSE i \in 1..Len(emits) :
                  emits[i].type = "error" /\ emits[i].delivered = 0]).arg
    ELSE None

----------------------------------------------------------------------------
\* The constructor's handlers and their completion callbacks

\* The newListener handler without its count test: subscribes on every addition
newListenerHandlerNoCount(ls, event) ==
  IF event = "release" THEN << >>
  ELSE IF event = "_rpc" THEN << >>
  ELSE emitRpc(ls, "subscribe", [type |-> event],
               [fn |-> "subscribe", event |-> event])

\* The newListener handler without its test for 'release'
newListenerHandlerNoReleaseCheck(ls, event) ==
  IF event = "_rpc" THEN << >>
  ELSE IF listenerCount(ls, event) = 0
    THEN emitRpc(ls, "subscribe", [type |-> event],
                 [fn |-> "subscribe", event |-> event])
    ELSE << >>

\* The newListener handler looking at the requests in flight as well: no
\* subscribe while one for the event-type is outstanding
newListenerHandlerOncePending(ls, event) ==
  IF event = "release" THEN << >>
  ELSE IF event = "_rpc" THEN << >>
  ELSE IF /\ listenerCount(ls, event) = 0
          /\ \A r \in BagToSet(pending) :
               ~(r.method = "subscribe" /\ r.params.type = event)
    THEN emitRpc(ls, "subscribe", [type |-> event],
                 [fn |-> "subscribe", event |-> event])
    ELSE << >>

\* this.on('newListener', function(event, listener) {...})
newListenerHandler(ls, event) ==
  IF event = "release" THEN << >>
  ELSE IF event = "_rpc" THEN << >>
  ELSE IF listenerCount(ls, event) = 0
    THEN emitRpc(ls, "subscribe", [type |-> event],
                 [fn |-> "subscribe", event |-> event])
    ELSE << >>

\* The removeListener handler without its count test: unsubscribes on every
\* removal
removeListenerHandlerNoCount(ls, tk, event) ==
  emitRpc(ls, "unsubscribe", [subscription |-> tk[event]],
          [fn |-> "unsubscribe", event |-> event])

\* this.on('removeListener', function(event, listener) {...})
removeListenerHandler(ls, tk, event) ==
  IF listenerCount(ls, event) = 0
    THEN emitRpc(ls, "unsubscribe", [subscription |-> tk[event]],
                 [fn |-> "unsubscribe", event |-> event])
    ELSE << >>

\* The subscribe callback without `return` on error: it goes on to store
\* the (undefined) token
subscribeCallbackNoReturn(ls, tk, event, error, token) ==
  [tokens |-> [tk EXCEPT ![event] = token],
   emits  |-> IF error # Null THEN << emitEvent(ls, "error", error) >>
                              ELSE << >>]

\* function(error, token) of the subscribe request
subscribeCallback(ls, tk, event, error, token) ==
  IF error # Null
    THEN [tokens |-> tk, emits |-> << emitEvent(ls, "error", error) >>]
    ELSE [tokens |-> [tk EXCEPT ![event] = token], emits |-> << >>]

\* The unsubscribe callback without `return` on error: it goes on to delete
\* the entry
unsubscribeCallbackNoReturn(ls, tk, event, error) ==
  [tokens |-> [tk EXCEPT ![event] = Undefined],
   emits  |-> IF error # Null THEN << emitEvent(ls, "error", error) >>
                              ELSE << >>]

\* The unsubscribe callback without the delete
unsubscribeCallbackKeepsEntry(ls, tk, event, error) ==
  [tokens |-> tk,
   emits  |-> IF error # Null THEN << emitEvent(ls, "error", error) >>
                              ELSE << >>]

\* function(error) of the unsubscribe request
unsubscribeCallback(ls, tk, event, error) ==
  IF error # Null
    THEN [tokens |-> tk, emits |-> << emitEvent(ls, "error", error) >>]
    ELSE [tokens |-> [tk EXCEPT ![event] = Undefined], emits |-> << >>]

----------------------------------------------------------------------------
\* EventEmitter.on / removeListener / removeAllListeners, with the handlers
\* above run where the emitter runs them.  The emitter keeps its listeners in
\* a table keyed by event-type, in the order the keys were created; a key is
\* deleted with its last listener.  removeAllListeners() walks that table, so
\* what it hands to the gateway depends on which keys come before '_rpc':
\* beforeRpc is that set (empty while '_rpc' has no key).

\* emitter.on(event, listener): 'newListener' is emitted before the listener
\* is added
on(ls, bf, event) ==
  [listeners |-> [ls EXCEPT ![event] = @ + 1],
   beforeRpc |-> IF event = "_rpc" /\ ls["_rpc"] = 0
                   THEN {e \in Events : ls[e] > 0} ELSE bf,
   requests  |-> IF listenerCount(ls, "newListener") > 0
                   THEN newListenerHandler(ls, event) ELSE << >>]

\* emitter.removeListener(event, listener) of a registered listener:
\* 'removeListener' is emitted after the listener is removed
removeListener(ls, bf, tk, event) ==
  LET ls2 == [ls EXCEPT ![event] = @ - 1]
  IN [listeners |-> ls2,
      beforeRpc |-> IF ls2["_rpc"] = 0 THEN {}
                    ELSE IF ls2[event] = 0 THEN bf \ {event} ELSE bf,
      requests  |-> IF listenerCount(ls2, "removeListener") > 0
                      THEN removeListenerHandler(ls2, tk, event) ELSE << >>]

\* emitter.removeAllListeners(type): removeListener for each listener of
\* type, last one first
RECURSIVE removeAllListenersOf(_, _, _)
removeAllListenersOf(st, tk, type) ==
  IF st.listeners[type] = 0 THEN st
  ELSE LET r == removeListener(st.listeners, st.beforeRpc, tk, type)
       IN removeAllListenersOf([listeners |-> r.listeners,
                                beforeRpc |-> r.beforeRpc,
                                requests  |-> st.requests \o r.requests],
                               tk, type)

\* emitter.removeAllListeners(): with no 'removeListener' listener the table
\* is dropped; otherwise every key but 'removeListener' in table order (the
\* keys before '_rpc', '_rpc', the keys after it), then 'removeListener'
RECURSIVE removeAllListenersIn(_, _, _)
removeAllListenersIn(st, tk, types) ==
  IF types = {} THEN st
  ELSE LET type == CHOOSE t \in types : TRUE
       IN removeAllListenersIn(removeAllListenersOf(st, tk, type), tk,
                               types \ {type})

removeAllListeners(ls, bf, tk) ==
  IF listenerCount(ls, "removeListener") = 0
    THEN [listeners |-> [e \in Events |-> 0], beforeRpc |-> {},
          requests |-> << >>]
    ELSE LET first  == bf \ {"removeListener"}
             rest   == Events \ (bf \cup {"_rpc", "removeListener"})
             st0    == [listeners |-> ls, beforeRpc |-> bf, requests |-> << >>]
             st1    == removeAllListenersIn(st0, tk, first)
             st2    == removeAllListenersOf(st1, tk, "_rpc")
             st3    == removeAllListenersIn(st2, tk, rest)
         IN removeAllListenersOf(st3, tk, "removeListener")

----------------------------------------------------------------------------
\* release and invoke

\* The release callback detaching the listeners before it emits 'release'
releaseCallbackDetachFirst(ls, bf, tk, error) ==
  IF error # Null
    THEN [listeners |-> ls, beforeRpc |-> bf, requests |-> << >>,
          emits |-> << >>, logged |-> error]
    ELSE LET r == removeAllListeners(ls, bf, tk)
         IN [listeners |-> r.listeners, beforeRpc |-> r.beforeRpc,
             requests |-> r.requests,
             emits |-> << emitEvent(r.listeners, "release", Null) >>,
             logged |-> None]

\* The release callback reporting a failure as the other callbacks do
releaseCallbackEmitsError(ls, bf, tk, error) ==
  IF error # Null
    THEN [listeners |-> ls, beforeRpc |-> bf, requests |-> << >>,
          emits |-> << emitEvent(ls, "error", error) >>, logged |-> None]
    ELSE LET r == removeAllListeners(ls, bf, tk)
         IN [listeners |-> r.listeners, beforeRpc |-> r.beforeRpc,
             requests |-> r.requests,
             emits |-> << emitEvent(ls, "release", Null) >>, logged |-> None]

\* function(error) of the release request
releaseCallback(ls, bf, tk, error) ==
  IF error # Null
    THEN [listeners |-> ls, beforeRpc |-> bf, requests |-> << >>,
          emits |-> << >>, logged |-> error]
    ELSE LET r == removeAllListeners(ls, bf, tk)
         IN [listeners |-> r.listeners, beforeRpc |-> r.beforeRpc,
             requests |-> r.requests,
             emits |-> << emitEvent(ls, "release", Null) >>, logged |-> None]

\* MediaObject.prototype.release
release(ls) == emitRpc(ls, "release", << >>, [fn |-> "release"])

\* invoke putting operationParams in the payload whatever params is
invokeAlwaysParams(ls, method, params, callback) ==
  IF params = "fn" /\ callback # "undefined"
    THEN [thrown |-> "SyntaxError", requests |-> << >>]
    ELSE LET cb  == IF params = "fn" THEN params ELSE callback
             p   == IF params = "fn" THEN Null ELSE params
             cb2 == IF cb # "undefined"
                      THEN [fn |-> "callback2", callback |-> cb]
                      ELSE [fn |-> "undefined"]
         IN [thrown |-> None,
             requests |-> emitRpc(ls, "invoke",
                                  [operation |-> method, operationParams |-> p],
                                  cb2)]

\* invoke without the test for a callback after a callback: the function in
\* the params position silently becomes the completion handler
invokeNoThrow(ls, method, params, callback) ==
  LET cb  == IF params = "fn" THEN params ELSE callback
      p   == IF params = "fn" THEN Null ELSE params
      params2 == IF p # Null
                   THEN [operation |-> method, operationParams |-> p]
                   ELSE [operation |-> method]
      cb2 == IF cb # "undefined"
               THEN [fn |-> "callback2", callback |-> cb]
               ELSE [fn |-> "undefined"]
  IN [thrown |-> None, requests |-> emitRpc(ls, "invoke", params2, cb2)]

\* MediaObject.prototype.invoke; params is Null, "obj" (an object) or "fn" (a
\* function), callback is Undefined or "cb" (a function)
invoke(ls, method, params, callback) ==
  IF params = "fn" /\ callback # "undefined"
    THEN [thrown |-> "SyntaxError", requests |-> << >>]
    ELSE LET cb  == IF params = "fn" THEN params ELSE callback
             p   == IF params = "fn" THEN Null ELSE params
             params2 == IF p # Null
                          THEN [operation |-> method, operationParams |-> p]
                          ELSE [operation |-> method]
             callback2 == IF cb # "undefined"
                            THEN [fn |-> "callback2", callback |-> cb]
                            ELSE [fn |-> "undefined"]
         IN [thrown |-> None,
             requests |-> emitRpc(ls, "invoke", params2, callback2)]

\* callback2 handing the caller the value as the only argument
callback2ValueFirst(callback, error, result) ==
  IF error # Null
    THEN << [handler |-> callback, args |-> << error >>] >>
    ELSE << [handler |-> callback, args |-> << result.value >>] >>

\* callback2 = function(error, result)
callback2(callback, error, result) ==
  IF error # Null
    THEN << [handler |-> callback, args |-> << error >>] >>
    ELSE << [handler |-> callback, args |-> << Null, result.value >>] >>

----------------------------------------------------------------------------
\* The gateway and the server behind it

RECURSIVE AddAll(_, _)
AddAll(bag, reqs) ==
  IF reqs = << >> THEN bag
  ELSE AddAll(bag (+) SetToBag({Head(reqs)}), Tail(reqs))

Take(bag, r) == bag (-) SetToBag({r})

Room(reqs) == BagCardinality(pending) + Len(reqs) <= MaxPending

\* Tokens something still refers to
InUse ==
  {tokens[e] : e \in Events}
    \cup (UNION {serverSubs[e] : e \in Events})
    \cup {r.params.subscription :
            r \in {q \in BagToSet(pending) : q.method = "unsubscribe"}}

\* The token the server returns for a new subscription: one nothing refers to
FreshTokens ==
  LET free == Tokens \ InUse
  IN IF free = {} THEN {} ELSE {CHOOSE t \in free : \A u \in free : t <= u}

Quiet ==
  /\ emitted' = << >>
  /\ thrown' = None
  /\ logged' = None
  /\ called' = << >>

----------------------------------------------------------------------------
Init ==
  /\ listeners = [e \in Events |->
                    IF e \in {"removeListener", "newListener"} THEN 1 ELSE 0]
  /\ beforeRpc = {}
  /\ tokens = [e \in Events |-> Undefined]
  /\ pending = EmptyBag
  /\ serverSubs = [e \in Events |-> {}]
  /\ emitted = << >>
  /\ thrown = None
  /\ logged = None
  /\ called = << >>

\* The application attaches a listener, or the transport its one '_rpc'
\* listener: a request and its callback go to one gateway, which completes
\* the request at most once
On(event) ==
  LET r == on(listeners, beforeRpc, event)
  IN /\ listeners[event] < (IF event = "_rpc" THEN 1 ELSE MaxListeners)
     /\ Room(r.requests)
     /\ listeners' = r.listeners
     /\ beforeRpc' = r.beforeRpc
     /\ pending' = AddAll(pending, r.requests)
     /\ Quiet
     /\ UNCHANGED <<tokens, serverSubs>>

\* The application detaches one of its listeners
RemoveListener(event) ==
  LET r == removeListener(listeners, beforeRpc, tokens, event)
  IN /\ listeners[event] > 0
     /\ Room(r.requests)
     /\ listeners' = r.listeners
     /\ beforeRpc' = r.beforeRpc
     /\ pending' = AddAll(pending, r.requests)
     /\ Quiet
     /\ UNCHANGED <<tokens, serverSubs>>

\* The application calls release()
Release ==
  LET reqs == release(listeners)
  IN /\ Room(reqs)
     /\ pending' = AddAll(pending, reqs)
     /\ Quiet
     /\ UNCHANGED <<listeners, beforeRpc, tokens, serverSubs>>

\* The application calls invoke(method, params, callback)
Invoke(method, params, callback) ==
  LET r == invoke(listeners, method, params, callback)
  IN /\ Room(r.requests)
     /\ pending' = AddAll(pending, r.requests)
     /\ thrown' = r.thrown
     /\ emitted' = << >>
     /\ logged' = None
     /\ called' = << >>
     /\ UNCHANGED <<listeners, beforeRpc, tokens, serverSubs>>

\* The gateway completes a subscribe request
SubscribeDone(r, error, token) ==
  LET c == subscribeCallback(listeners, tokens, r.callback.event, error, token)
  IN /\ r.method = "subscribe"
     /\ pending' = Take(pending, r)
     /\ tokens' = c.tokens
     /\ serverSubs' = IF error = Null
                        THEN [serverSubs EXCEPT ![r.params.type] = @ \cup {token}]
                        ELSE serverSubs
     /\ emitted' = c.emits
     /\ thrown' = throwsOf(c.emits)
     /\ logged' = None
     /\ called' = << >>
     /\ UNCHANGED <<listeners, beforeRpc>>

\* The gateway completes an unsubscribe request
UnsubscribeDone(r, error) ==
  LET c == unsubscribeCallback(listeners, tokens, r.callback.event, error)
  IN /\ r.method = "unsubscribe"
     /\ pending' = Take(pending, r)
     /\ tokens' = c.tokens
     /\ serverSubs' = IF error = Null
                        THEN [e \in Events |->
                                serverSubs[e] \ {r.params.subscription}]
                        ELSE serverSubs
     /\ emitted' = c.emits
     /\ thrown' = throwsOf(c.emits)
     /\ logged' = None
     /\ called' = << >>
     /\ UNCHANGED <<listeners, beforeRpc>>

\* A release completion that also empties the ledger
ReleaseDoneClearsLedger(r, error) ==
  LET c == releaseCallback(listeners, beforeRpc, tokens, error)
  IN /\ r.method = "release"
     /\ BagCardinality(pending) - 1 + Len(c.requests) <= MaxPending
     /\ pending' = AddAll(Take(pending, r), c.requests)
     /\ listeners' = c.listeners
     /\ beforeRpc' = c.beforeRpc
     /\ emitted' = c.emits
     /\ thrown' = throwsOf(c.emits)
     /\ logged' = c.logged
     /\ called' = << >>
     /\ tokens' = IF error = Null THEN [e \in Events |-> Undefined] ELSE tokens
     /\ UNCHANGED serverSubs

\* The gateway completes a release request
ReleaseDone(r, error) ==
  LET c == releaseCallback(listeners, beforeRpc, tokens, error)
  IN /\ r.method = "release"
     /\ BagCardinality(pending) - 1 + Len(c.requests) <= MaxPending
     /\ pending' = AddAll(Take(pending, r), c.requests)
     /\ listeners' = c.listeners
     /\ beforeRpc' = c.beforeRpc
     /\ emitted' = c.emits
     /\ thrown' = throwsOf(c.emits)
     /\ logged' = c.logged
     /\ called' = << >>
     /\ UNCHANGED <<tokens, serverSubs>>

\* The gateway completes an invoke request that carries a callback
InvokeDone(r, error, result) ==
  /\ r.method = "invoke"
  /\ r.callback.fn = "callback2"
  /\ pending' = Take(pending, r)
  /\ called' = callback2(r.callback.callback, error, result)
  /\ emitted' = << >>
  /\ thrown' = None
  /\ logged' = None
  /\ UNCHANGED <<listeners, beforeRpc, tokens, serverSubs>>

\* The gateway drops an invoke request that carries no callback once it is done
InvokeForget(r) ==
  /\ r.method = "invoke"
  /\ r.callback.fn = "undefined"
  /\ pending' = Take(pending, r)
  /\ Quiet
  /\ UNCHANGED <<listeners, beforeRpc, tokens, serverSubs>>

\* The listener operations, release, and the gateway's completions
Next ==
  \/ \E event \in AppEvents : On(event)
  \/ \E event \in AppEvents : RemoveListener(event)
  \/ Release
  \/ \E r \in BagToSet(pending), token \in FreshTokens :
       SubscribeDone(r, Null, token)
  \/ \E r \in BagToSet(pending), error \in Errors :
       SubscribeDone(r, error, Undefined)
  \/ \E r \in BagToSet(pending), error \in Errors \cup {Null} :
       UnsubscribeDone(r, error)
  \/ \E r \in BagToSet(pending), error \in Errors \cup {Null} :
       ReleaseDone(r, error)

Spec == Init /\ [][Next]_vars

\* The gateway, release and every form of invoke, on a proxy the application
\* attaches no listener to
NextInvoke ==
  \/ On("_rpc")
  \/ RemoveListener("_rpc")
  \/ Release
  \/ \E r \in BagToSet(pending), error \in Errors \cup {Null} :
       ReleaseDone(r, error)
  \/ \E params \in {Null, "obj", "fn"}, callback \in {"undefined", "cb"} :
       Invoke("foo", params, callback)
  \/ \E r \in BagToSet(pending), error \in Errors :
       InvokeDone(r, error, Undefined)
  \/ \E r \in BagToSet(pending) : InvokeDone(r, Null, [value |-> "v"])
  \/ \E r \in BagToSet(pending) : InvokeForget(r)

SpecInvoke == Init /\ [][NextInvoke]_vars

\* Listeners for the server event-type, release, and invoke with a completion
\* handler after a params object or after a function
NextProxy ==
  \/ \E event \in AppEvents \ {"release"} : On(event)
  \/ \E event \in AppEvents \ {"release"} : RemoveListener(event)
  \/ Release
  \/ \E r \in BagToSet(pending), token \in FreshTokens :
       SubscribeDone(r, Null, token)
  \/ \E r \in BagToSet(pending), error \in Errors :
       SubscribeDone(r, error, Undefined)
  \/ \E r \in BagToSet(pending), error \in Errors \cup {Null} :
       UnsubscribeDone(r, error)
  \/ \E r \in BagToSet(pending), error \in Errors \cup {Null} :
       ReleaseDone(r, error)
  \/ \E params \in {"obj", "fn"} : Invoke("foo", params, "cb")
  \/ \E r \in BagToSet(pending), error \in Errors :
       InvokeDone(r, error, Undefined)
  \/ \E r \in BagToSet(pending) : InvokeDone(r, Null, [value |-> "v"])

SpecProxy == Init /\ [][NextProxy]_vars

\* Runs without overlap, failure or release: the transport attaches its
\* listener first and keeps it, the application adds or removes a listener or
\* calls invoke only when no request is outstanding, and the gateway
\* completes every request successfully, with any token it has not handed out
NextSerial ==
  \/ \E event \in AppEvents :
       /\ pending = EmptyBag
       /\ event # "_rpc" => listeners["_rpc"] > 0
       /\ On(event)
  \/ \E event \in AppEvents \ {"_rpc"} :
       /\ pending = EmptyBag
       /\ RemoveListener(event)
  \/ \E r \in BagToSet(pending), token \in Tokens \ InUse :
       SubscribeDone(r, Null, token)
  \/ \E r \in BagToSet(pending) : UnsubscribeDone(r, Null)
  \/ \E params \in {Null, "obj", "fn"}, callback \in {"undefined", "cb"} :
       /\ pending = EmptyBag
       /\ listeners["_rpc"] > 0
       /\ Invoke("foo", params, callback)
  \/ \E r \in BagToSet(pending) : InvokeDone(r, Null, [value |-> "v"])
  \/ \E r \in BagToSet(pending) : InvokeForget(r)

SpecSerial == Init /\ [][NextSerial]_vars

----------------------------------------------------------------------------
\* Requests as the gateway sees them, and what is outstanding for an event-type

SubscribeRequest(E) ==
  [method |-> "subscribe", params |-> [type |-> E],
   callback |-> [fn |-> "subscribe", event |-> E]]

UnsubscribeRequest(E, token) ==
  [method |-> "unsubscribe", params |-> [subscription |-> token],
   callback |-> [fn |-> "unsubscribe", event |-> E]]

PendingFor(E) ==
  {r \in BagToSet(pending) :
     r.method \in {"subscribe", "unsubscribe"} /\ r.callback.event = E}

Issued(r) == pending' = pending (+) SetToBag({r})

NothingIssued == pending' = pending

\* The constructor's handlers are attached: no release has succeeded
Live == listeners["newListener"] > 0 /\ listeners["removeListener"] > 0

GatewayListening == listeners["_rpc"] > 0

----------------------------------------------------------------------------
\* C1 (as stated): for every event-type E other than 'release' and '_rpc',
\* with a gateway listening on '_rpc', adding a listener for E when E has no
\* listener issues exactly one subscribe request with payload {type: E}, and
\* adding one when E has a listener issues no request.
C1_Original ==
  [][\A E \in AppEvents \ {"release", "_rpc"} :
       (GatewayListening /\ On(E)) =>
         IF listeners[E] = 0 THEN Issued(SubscribeRequest(E))
                             ELSE NothingIssued]_vars

\* C1 (amended): the same on a proxy whose release has not succeeded, that
\* is, while the constructor's newListener handler is attached.
C1_FirstListenerSubscribes ==
  [][\A E \in AppEvents \ {"release", "_rpc"} :
       (Live /\ GatewayListening /\ On(E)) =>
         IF listeners[E] = 0 THEN Issued(SubscribeRequest(E))
                             ELSE NothingIssued]_vars

\* A second listener was added while the one subscribe is still outstanding.
C1_Witness ==
  /\ Live /\ GatewayListening
  /\ listeners["error"] = 2
  /\ pending = SetToBag({SubscribeRequest("error")})
  /\ tokens["error"] = Undefined

----------------------------------------------------------------------------
C3_SettledLedgerMatchesListeners ==
  [][(\/ \E r \in BagToSet(pending), error \in Errors \cup {Null},
            token \in Tokens \cup {Undefined} : SubscribeDone(r, error, token)
      \/ \E r \in BagToSet(pending), error \in Errors \cup {Null} :
            UnsubscribeDone(r, error)
      \/ \E r \in BagToSet(pending), error \in Errors \cup {Null} :
            ReleaseDone(r, error))
     => \A E \in AppEvents \ {"release", "_rpc"} :
          (PendingFor(E) = {})' =>
            ((tokens'[E] # Undefined) <=> (listeners'[E] > 0))]_vars

\* C4: the subscribes that succeeded for E, less the unsubscribes that
\* succeeded carrying one of their tokens, are never more than one.
C4_AtMostOneSubscription ==
  \A E \in Events : Cardinality(serverSubs[E]) <= 1

\* C5: a subscribe callback invoked with an error emits one 'error' event
\* carrying that error and leaves the ledger as it was.
C5_SubscribeFailure ==
  [][\A r \in BagToSet(pending), error \in Errors,
        token \in Tokens \cup {Undefined} :
       SubscribeDone(r, error, token) =>
         /\ Len(emitted') = 1
         /\ emitted'[1].type = "error"
         /\ emitted'[1].arg = error
         /\ tokens' = tokens]_vars

\* A subscribe failed with a listener attached: the listener got the error
\* and the ledger has no entry.
C5_Witness ==
  /\ Live /\ GatewayListening
  /\ listeners["error"] > 0
  /\ Len(emitted) = 1 /\ emitted[1].type = "error" /\ emitted[1].delivered > 0
  /\ tokens["error"] = Undefined
  /\ pending = EmptyBag
  /\ serverSubs["error"] = {}

\* C6: an unsubscribe callback invoked with an error emits one 'error' event
\* carrying that error and leaves the ledger as it was; invoked without one
\* it deletes the entry of its event-type and emits nothing.
C6_UnsubscribeCompletion ==
  [][\A r \in BagToSet(pending), error \in Errors \cup {Null} :
       UnsubscribeDone(r, error) =>
         IF error # Null
           THEN /\ Len(emitted') = 1
                /\ emitted'[1].type = "error"
                /\ emitted'[1].arg = error
                /\ tokens' = tokens
           ELSE /\ emitted' = << >>
                /\ tokens' = [tokens EXCEPT ![r.callback.event] = Undefined]]_vars

\* An unsubscribe failed: the token is still in the ledger with no listener.
C6_Witness ==
  /\ Live /\ GatewayListening
  /\ listeners["error"] = 0
  /\ tokens["error"] \in Tokens
  /\ Len(emitted) = 1 /\ emitted[1].type = "error"
  /\ pending = EmptyBag

\* C7: a release callback invoked without an error emits 'release' to the
\* listeners registered for it before any is detached, and leaves no
\* listener for any event-type.
C7_ReleaseSuccess ==
  [][\A r \in BagToSet(pending) :
       ReleaseDone(r, Null) =>
         /\ emitted' = << [type |-> "release", arg |-> Null,
                           delivered |-> listeners["release"]] >>
         /\ \A e \in Events : listeners'[e] = 0]_vars

\* 'release' reached its listeners and nothing is attached any more.
C7_Witness ==
  /\ Len(emitted) = 1
  /\ emitted[1].type = "release"
  /\ emitted[1].delivered = MaxListeners
  /\ \A e \in Events : listeners[e] = 0

C9_NoLocalSubscribe ==
  \A r \in BagToSet(pending) :
    r.method = "subscribe" => r.params.type \notin {"release", "_rpc"}

\* The first 'release' listener was added with the gateway listening and
\* room for a request, and none was issued.
C9_Witness ==
  /\ Live /\ GatewayListening
  /\ listeners["release"] = 1
  /\ "release" \notin beforeRpc
  /\ pending = EmptyBag

\* C10: the failure of a subscribe or unsubscribe request never raises an
\* exception out of the completion callback.
C10_FailureNeverThrows ==
  [][(\/ \E r \in BagToSet(pending), error \in Errors :
            SubscribeDone(r, error, Undefined)
      \/ \E r \in BagToSet(pending), error \in Errors :
            UnsubscribeDone(r, error))
     => thrown' = None]_vars

----------------------------------------------------------------------------
\* invoke's request as the gateway sees it

InvokeRequest(method, params, callback) ==
  [method |-> "invoke",
   params |-> IF params = "obj"
                THEN [operation |-> method, operationParams |-> params]
                ELSE [operation |-> method],
   callback |-> IF params = "fn" THEN [fn |-> "callback2", callback |-> "fn"]
                ELSE IF callback = "cb"
                  THEN [fn |-> "callback2", callback |-> "cb"]
                  ELSE [fn |-> "undefined"]]

\* C11: when an invoke request completes with result r, the caller's handler
\* is called exactly once with (null, r.value); when it completes with error
\* e, the handler is called exactly once with e alone, and no 'error' event
\* is emitted.
C11_InvokeCompletion ==
  [][\A r \in BagToSet(pending) :
       /\ InvokeDone(r, Null, [value |-> "v"]) =>
            /\ called' = << [handler |-> r.callback.callback,
                             args |-> << Null, "v" >>] >>
            /\ emitted' = << >>
       /\ \A error \in Errors :
            InvokeDone(r, error, Undefined) =>
              /\ called' = << [handler |-> r.callback.callback,
                               args |-> << error >>] >>
              /\ emitted' = << >>
              /\ thrown' = None]_vars

\* The handler given to invoke got the unwrapped value.
C11_Witness ==
  called = << [handler |-> "cb", args |-> << Null, "v" >>] >>

\* C12: with the gateway listening, an invoke call that does not raise
\* issues exactly one invoke request: operation is the method, the payload
\* has operationParams, equal to params, exactly when params were given, and
\* a function in the params position is the completion handler.
C12_InvokeRequest ==
  [][\A params \in {Null, "obj", "fn"}, callback \in {"undefined", "cb"} :
       (/\ GatewayListening
        /\ ~(params = "fn" /\ callback = "cb")
        /\ Invoke("foo", params, callback)) =>
         /\ Issued(InvokeRequest("foo", params, callback))
         /\ thrown' = None]_vars

\* invoke(method, handler) is outstanding: no operationParams key, and the
\* function is the handler.
C12_Witness ==
  \E r \in BagToSet(pending) :
    /\ r.method = "invoke"
    /\ DOMAIN r.params = {"operation"}
    /\ r.callback = [fn |-> "callback2", callback |-> "fn"]

\* C13: invoke with a function in the params position and a completion
\* handler raises synchronously, issues no request, calls neither function
\* and leaves listeners and ledger as they were.
C13_CallbackAfterCallback ==
  [][Invoke("foo", "fn", "cb") =>
       /\ thrown' = "SyntaxError"
       /\ NothingIssued
       /\ called' = << >>
       /\ UNCHANGED <<listeners, beforeRpc, tokens>>]_vars

\* The call raised on a proxy that could have issued the request and that
\* has a listener and a ledger entry to lose.
C13_Witness ==
  /\ thrown = "SyntaxError"
  /\ GatewayListening
  /\ BagCardinality(pending) < MaxPending
  /\ listeners["error"] > 0
  /\ tokens["error"] \in Tokens

\* C14: the ledger changes only when a subscribe completes successfully
\* (the entry of its event-type is set to the token) or an unsubscribe
\* completes successfully (the entry of its event-type is deleted), so that
\* every other step (adding and removing listeners, invoke and its
\* completion, release and its completion) leaves it as it was; invoke and
\* its completion leave the ledger and every listener set as they were.
C14_LedgerChanges ==
  [][/\ tokens' # tokens =>
          \E r \in BagToSet(pending) :
            \/ \E token \in Tokens :
                 /\ SubscribeDone(r, Null, token)
                 /\ tokens' = [tokens EXCEPT ![r.callback.event] = token]
            \/ /\ UnsubscribeDone(r, Null)
               /\ tokens' = [tokens EXCEPT ![r.callback.event] = Undefined]
     /\ (\/ \E params \in {Null, "obj", "fn"}, callback \in {"undefined", "cb"} :
              Invoke("foo", params, callback)
         \/ \E r \in BagToSet(pending) :
              \/ \E error \in Errors : InvokeDone(r, error, Undefined)
              \/ InvokeDone(r, Null, [value |-> "v"])
              \/ InvokeForget(r)) => UNCHANGED <<tokens, listeners>>]_vars

\* An invoke completed on a proxy with a listener and its token in the
\* ledger.
C14_Witness ==
  /\ tokens["error"] \in Tokens
  /\ listeners["error"] > 0
  /\ called # << >>

\* C15: no completion callback, successful or failed, issues a further
\* request: the step that completes a request takes it from the gateway and
\* hands the gateway nothing.
C15_NoRequestFromCompletion ==
  [][\A r \in BagToSet(pending), error \in Errors \cup {Null} :
       (\/ \E token \in Tokens \cup {Undefined} : SubscribeDone(r, error, token)
        \/ UnsubscribeDone(r, error)
        \/ ReleaseDone(r, error)) => pending' = Take(pending, r)]_vars

\* C16: whether adding a listener subscribes depends on the listener count
\* alone, not on the ledger and not on the requests in flight.  With the
\* gateway listening and the constructor's handlers attached: the first
\* listener for E, added while a subscribe for E is outstanding, issues a
\* second subscribe; added while the ledger holds a token for E, it issues a
\* subscribe as well; and removing the last listener for E while the first
\* subscribe is outstanding issues an unsubscribe that carries no token.
C16_CountAloneDecides ==
  [][\A E \in AppEvents \ {"release", "_rpc"} :
       /\ (/\ Live /\ GatewayListening
           /\ SubscribeRequest(E) \in BagToSet(pending)
           /\ listeners[E] = 0
           /\ On(E)) =>
            CopiesIn(SubscribeRequest(E), pending') =
              CopiesIn(SubscribeRequest(E), pending) + 1
       /\ (/\ Live /\ GatewayListening
           /\ tokens[E] \in Tokens
           /\ listeners[E] = 0
           /\ On(E)) => Issued(SubscribeRequest(E))
       /\ (/\ Live /\ GatewayListening
           /\ SubscribeRequest(E) \in BagToSet(pending)
           /\ tokens[E] = Undefined
           /\ RemoveListener(E)
           /\ listeners'[E] = 0) =>
            Issued(UnsubscribeRequest(E, Undefined))]_vars

\* Two subscribe requests for the same event-type are outstanding at once.
C16_Witness ==
  \E E \in AppEvents \ {"release", "_rpc"} :
    /\ CopiesIn(SubscribeRequest(E), pending) = 2
    /\ listeners[E] = 1
    /\ tokens[E] = Undefined

\* C17: in runs where every request completes successfully before the next
\* listener operation (no overlap, no failure, no release), for every
\* event-type E the proxy subscribes to: the unsubscribe issued when the last
\* listener for E goes carries the token the most recent subscribe for E
\* returned (the one subscription the server holds for E), and after each
\* completion the ledger holds that token for E when E has listeners and no
\* entry when E has none.
C17_SerialTokens ==
  [][\A E \in AppEvents \ {"release", "_rpc"} :
       /\ (RemoveListener(E) /\ listeners'[E] = 0) =>
            \E t \in Tokens :
              /\ serverSubs[E] = {t}
              /\ Issued(UnsubscribeRequest(E, t))
       /\ (\E r \in BagToSet(pending) :
             \/ \E token \in Tokens : SubscribeDone(r, Null, token)
             \/ UnsubscribeDone(r, Null)) =>
            IF listeners'[E] > 0
              THEN tokens'[E] \in Tokens /\ serverSubs'[E] = {tokens'[E]}
              ELSE tokens'[E] = Undefined /\ serverSubs'[E] = {}]_vars

\* The unsubscribe of a second subscription is outstanding, with that
\* subscription's token, which is not the first one's.
C17_Witness ==
  \E E \in AppEvents \ {"release", "_rpc"}, t \in Tokens :
    /\ UnsubscribeRequest(E, t) \in BagToSet(pending)
    /\ serverSubs[E] = {t}
    /\ tokens[E] = t
    /\ listeners[E] = 0
    /\ t > 1

\* C18: no unsubscribe request that reaches the gateway is for 'release' or
\* '_rpc', the event-types no subscribe request is ever issued for.
C18_NoUnsubscribeForLocalEvents ==
  \A r \in BagToSet(pending) :
    r.method = "unsubscribe" => r.callback.event \notin {"release", "_rpc"}

\* C19: with the gateway listening, release() hands the gateway exactly one
\* request, release with an empty payload, and the successful completion of
\* it, which detaches every listener, hands the gateway no unsubscribe.
C19_ReleaseIsOneRequest ==
  [][/\ (GatewayListening /\ Release) =>
          Issued([method |-> "release", params |-> << >>,
                  callback |-> [fn |-> "release"]])
     /\ \A r \in BagToSet(pending) :
          ReleaseDone(r, Null) =>
            \A q \in BagToSet(pending') :
              q.method = "unsubscribe" =>
                CopiesIn(q, pending') <= CopiesIn(q, pending)]_vars

\* C20: once a release has completed successfully (the constructor's
\* handlers are detached) and while nothing listens on '_rpc', adding a
\* listener, removing one, invoke and release hand the gateway no request,
\* leave the ledger as it was and call no completion handler; an invoke that
\* handed the gateway nothing has no completion.
C20_InertAfterRelease ==
  [][(/\ ~Live
      /\ ~GatewayListening
      /\ \/ \E event \in AppEvents \ {"_rpc"} : On(event) \/ RemoveListener(event)
         \/ Release
         \/ \E params \in {Null, "obj", "fn"}, callback \in {"undefined", "cb"} :
              Invoke("foo", params, callback)) =>
       /\ NothingIssued
       /\ tokens' = tokens
       /\ called' = << >>]_vars

\* After the release a listener was added for an event-type whose token is
\* still in the ledger, and no request went out.
C20_Witness ==
  /\ ~Live
  /\ ~GatewayListening
  /\ listeners["error"] > 0
  /\ tokens["error"] \in Tokens
  /\ pending = EmptyBag

====
